---- MODULE Spec2Model ----
(***************************************************************************)
(* Model of daily_tracker.py: a command line task tracker that keeps its   *)
(* tasks in one JSON file (tasks.json).  Every invocation of main parses   *)
(* argv, runs one operation (load, mutate in memory, save) and exits.      *)
(*                                                                         *)
(* Strings whose order or syntax matters (dates, the --date token) are     *)
(* sequences of character codes; descriptions are opaque strings.          *)
(***************************************************************************)
EXTENDS Integers, Sequences, FiniteSets, TLC

(* ------------------------------ bounds --------------------------------- *)

\* most tasks the file holds before add is no longer attempted
MaxTasks == 2

\* greatest task_id add is allowed to hand out
MaxId == 3

\* most records of a storage file that was not written by this run
MaxStored == 2

\* most invocations the two terminal sessions start between them
MaxRuns == 4

(* --------------------------- character data ---------------------------- *)

\* "2024-05-01"
D_0501 == <<50, 48, 50, 52, 45, 48, 53, 45, 48, 49>>

\* "2024-04-30"
D_0430 == <<50, 48, 50, 52, 45, 48, 52, 45, 51, 48>>

\* "today"
T_today == <<116, 111, 100, 97, 121>>

\* "Today"
T_Today == <<84, 111, 100, 97, 121>>

\* "2024-02-30" (no such day)
T_0230 == <<50, 48, 50, 52, 45, 48, 50, 45, 51, 48>>

\* the scheduled dates in use
Dates == {D_0430, D_0501}

\* date.today().strftime(DATE_FMT) on the day of the run
Today == D_0501

IsDigit(c) == c \in 48..57

LowerChar(c) == IF c \in 65..90 THEN c + 32 ELSE c

\* str.lower()
lower(s) == [i \in 1..Len(s) |-> LowerChar(s[i])]

\* Python's < on str: lexicographic by code point, a proper prefix is smaller
RECURSIVE StrLess(_, _)
StrLess(s, t) ==
    IF t = <<>> THEN FALSE
    ELSE IF s = <<>> THEN TRUE
    ELSE IF Head(s) # Head(t) THEN Head(s) < Head(t)
    ELSE StrLess(Tail(s), Tail(t))

(* ------------------------------ Task ----------------------------------- *)

\* @dataclass Task
Task(id, description, scheduled_for, completed) ==
    [task_id |-> id, description |-> description,
     scheduled_for |-> scheduled_for, completed |-> completed]

\* placeholder where an operation returned no task
NoTask == Task(0, "", <<>>, FALSE)

\* Optional[...] values
None == [some |-> FALSE, val |-> <<>>]
Some(v) == [some |-> TRUE, val |-> v]
NoneBool == [some |-> FALSE, val |-> FALSE]

matches_date(task, date) ==
    IF ~date.some THEN TRUE ELSE task.scheduled_for = date.val

matches_state(task, completed) ==
    IF ~completed.some THEN TRUE ELSE task.completed = completed.val

\* exceptions: the class and str(exc)
NoExc == [class |-> "none", msg |-> ""]
Exc(class, msg) == [class |-> class, msg |-> msg]

(* A JSON object of the file: the keys it has, whether int() accepts the   *)
(* value under "task_id", and the values.                                  *)
AllKeys == {"task_id", "description", "scheduled_for", "completed"}
RequiredKeys == {"task_id", "description", "scheduled_for"}

\* asdict leaving the completed field out of the object it builds
asdict_without_completed(task) ==
    [keys |-> RequiredKeys, id_ok |-> TRUE, task_id |-> task.task_id,
     description |-> task.description, scheduled_for |-> task.scheduled_for,
     completed |-> FALSE]

\* dataclasses.asdict(task)
asdict(task) ==
    [keys |-> AllKeys, id_ok |-> TRUE, task_id |-> task.task_id,
     description |-> task.description, scheduled_for |-> task.scheduled_for,
     completed |-> task.completed]

\* the exception Task.from_dict(raw) raises, NoExc if it returns
from_dict_exc(raw) ==
    IF "task_id" \notin raw.keys THEN Exc("KeyError", "task_id")
    ELSE IF ~raw.id_ok THEN Exc("ValueError", "invalid literal for int()")
    ELSE IF "description" \notin raw.keys THEN Exc("KeyError", "description")
    ELSE IF "scheduled_for" \notin raw.keys THEN Exc("KeyError", "scheduled_for")
    ELSE NoExc

\* Task.from_dict(raw) where it returns
from_dict(raw) ==
    Task(raw.task_id, raw.description, raw.scheduled_for,
         IF "completed" \in raw.keys THEN raw.completed ELSE FALSE)

(* ----------------------------- storage --------------------------------- *)

\* tasks.json: absent, not JSON, JSON that is no array, or an array of objects
MissingFile == [kind |-> "missing", data |-> <<>>]
CorruptFile == [kind |-> "corrupt", data |-> <<>>]
ScalarFile == [kind |-> "scalar", data |-> <<>>]
ListFile(data) == [kind |-> "list", data |-> data]

\* load_tasks(): the exception raised (NoExc if it returns) and the tasks
load_tasks(f) ==
    IF f.kind = "missing" THEN [exc |-> NoExc, tasks |-> <<>>]
    ELSE IF f.kind = "corrupt"
         THEN [exc |-> Exc("TaskError", "cannot read tasks.json"), tasks |-> <<>>]
    ELSE IF f.kind = "scalar"
         THEN [exc |-> Exc("TypeError", "object is not iterable"), tasks |-> <<>>]
    ELSE IF \E i \in 1..Len(f.data) : from_dict_exc(f.data[i]) # NoExc
         THEN LET i == CHOOSE j \in 1..Len(f.data) :
                           /\ from_dict_exc(f.data[j]) # NoExc
                           /\ \A k \in 1..(j - 1) : from_dict_exc(f.data[k]) = NoExc
              IN [exc |-> from_dict_exc(f.data[i]), tasks |-> <<>>]
    ELSE [exc |-> NoExc, tasks |-> [i \in 1..Len(f.data) |-> from_dict(f.data[i])]]

\* save_tasks(tasks): the file it leaves
save_tasks(tasks) == ListFile([i \in 1..Len(tasks) |-> asdict(tasks[i])])

(* ------------------------ task management ------------------------------ *)

RECURSIVE MaxId_of(_)
\* max(current, default=0)
MaxId_of(tasks) ==
    IF tasks = <<>> THEN 0
    ELSE LET m == MaxId_of(Tail(tasks))
         IN IF Head(tasks).task_id > m THEN Head(tasks).task_id ELSE m

\* next_task_id with max(current, default=1): the first id comes out as 2
next_task_id_default_one(tasks) ==
    (IF tasks = <<>> THEN 1 ELSE MaxId_of(tasks)) + 1

\* next_task_id counting the tasks instead of taking their greatest id
next_task_id_by_count(tasks) == Len(tasks) + 1

next_task_id(tasks) == MaxId_of(tasks) + 1

\* index of the first task with that id, 0 if there is none
FirstIndex(tasks, task_id) ==
    IF \E i \in 1..Len(tasks) : tasks[i].task_id = task_id
    THEN CHOOSE i \in 1..Len(tasks) :
             /\ tasks[i].task_id = task_id
             /\ \A k \in 1..(i - 1) : tasks[k].task_id # task_id
    ELSE 0

\* del tasks[index:] in the place of tasks.pop(index)
Pop_drops_rest(tasks, index) == SubSeq(tasks, 1, index - 1)

\* tasks.pop(index)
Pop(tasks, index) ==
    [i \in 1..(Len(tasks) - 1) |-> IF i < index THEN tasks[i] ELSE tasks[i + 1]]

\* the sort key reduced to key=lambda task: task.task_id
KeyLess_by_id(a, b) == a.task_id < b.task_id

\* key=lambda task: (task.scheduled_for, task.task_id), compared as tuples
KeyLess(a, b) ==
    IF a.scheduled_for # b.scheduled_for
    THEN StrLess(a.scheduled_for, b.scheduled_for)
    ELSE a.task_id < b.task_id

\* put x behind every element whose key is not greater (sorted is stable)
RECURSIVE InsertSorted(_, _)
InsertSorted(sorted, x) ==
    IF sorted = <<>> THEN <<x>>
    ELSE IF KeyLess(x, Head(sorted)) THEN <<x>> \o sorted
    ELSE <<Head(sorted)>> \o InsertSorted(Tail(sorted), x)

RECURSIVE SortFrom(_, _)
SortFrom(done, rest) ==
    IF rest = <<>> THEN done
    ELSE SortFrom(InsertSorted(done, Head(rest)), Tail(rest))

\* sorted(tasks, key=...)
sorted_tasks(tasks) == SortFrom(<<>>, tasks)

\* add_task that puts the new task in front: tasks.insert(0, new_task)
add_task_prepends(f, description, scheduled_for) ==
    LET l == load_tasks(f)
    IN IF l.exc # NoExc
       THEN [exc |-> l.exc, file |-> f, task |-> NoTask]
       ELSE LET new_task == Task(next_task_id(l.tasks), description,
                                 scheduled_for, FALSE)
            IN [exc |-> NoExc,
                file |-> save_tasks(<<new_task>> \o l.tasks),
                task |-> new_task]

\* add_task(description, scheduled_for) on file f
add_task(f, description, scheduled_for) ==
    LET l == load_tasks(f)
    IN IF l.exc # NoExc
       THEN [exc |-> l.exc, file |-> f, task |-> NoTask]
       ELSE LET new_task == Task(next_task_id(l.tasks), description,
                                 scheduled_for, FALSE)
            IN [exc |-> NoExc,
                file |-> save_tasks(Append(l.tasks, new_task)),
                task |-> new_task]

\* list_tasks whose show_all branch returns before the completion filter
list_tasks_all_skips_state(f, date, show_all, completed) ==
    LET l == load_tasks(f)
        Keep(t) == matches_date(t, date) /\ matches_state(t, completed)
    IN IF l.exc # NoExc
       THEN [exc |-> l.exc, tasks |-> <<>>]
       ELSE [exc |-> NoExc,
             tasks |-> sorted_tasks(IF show_all THEN l.tasks
                                    ELSE SelectSeq(l.tasks, Keep))]

\* list_tasks(date, show_all, completed) on file f
list_tasks(f, date, show_all, completed) ==
    LET l == load_tasks(f)
        KeepDate(t) == matches_date(t, date)
        KeepState(t) == matches_state(t, completed)
        byDate == IF ~show_all THEN SelectSeq(l.tasks, KeepDate) ELSE l.tasks
        byState == IF completed.some THEN SelectSeq(byDate, KeepState) ELSE byDate
    IN IF l.exc # NoExc
       THEN [exc |-> l.exc, tasks |-> <<>>]
       ELSE [exc |-> NoExc, tasks |-> sorted_tasks(byState)]

\* update_task_state that marks the task completed whatever it is given
update_task_state_always_true(f, task_id, completed) ==
    LET l == load_tasks(f)
        i == FirstIndex(l.tasks, task_id)
    IN IF l.exc # NoExc
       THEN [exc |-> l.exc, file |-> f, task |-> NoTask]
       ELSE IF i = 0
       THEN [exc |-> Exc("TaskError", "task not found"), file |-> f, task |-> NoTask]
       ELSE LET tasks == [l.tasks EXCEPT ![i].completed = TRUE]
            IN [exc |-> NoExc, file |-> save_tasks(tasks), task |-> tasks[i]]

\* update_task_state(task_id, completed) on file f
update_task_state(f, task_id, completed) ==
    LET l == load_tasks(f)
        i == FirstIndex(l.tasks, task_id)
    IN IF l.exc # NoExc
       THEN [exc |-> l.exc, file |-> f, task |-> NoTask]
       ELSE IF i = 0
       THEN [exc |-> Exc("TaskError", "task not found"), file |-> f, task |-> NoTask]
       ELSE LET tasks == [l.tasks EXCEPT ![i].completed = completed]
            IN [exc |-> NoExc, file |-> save_tasks(tasks), task |-> tasks[i]]

\* remove_task with save_tasks moved behind the loop: it also runs on a miss
remove_task_saves_on_miss(f, task_id) ==
    LET l == load_tasks(f)
        i == FirstIndex(l.tasks, task_id)
    IN IF l.exc # NoExc
       THEN [exc |-> l.exc, file |-> f, task |-> NoTask]
       ELSE IF i = 0
       THEN [exc |-> Exc("TaskError", "task not found"),
             file |-> save_tasks(l.tasks), task |-> NoTask]
       ELSE [exc |-> NoExc, file |-> save_tasks(Pop(l.tasks, i)),
             task |-> l.tasks[i]]

\* remove_task that pops the task and forgets save_tasks
remove_task_without_save(f, task_id) ==
    LET l == load_tasks(f)
        i == FirstIndex(l.tasks, task_id)
    IN IF l.exc # NoExc
       THEN [exc |-> l.exc, file |-> f, task |-> NoTask]
       ELSE IF i = 0
       THEN [exc |-> Exc("TaskError", "task not found"), file |-> f, task |-> NoTask]
       ELSE [exc |-> NoExc, file |-> f, task |-> l.tasks[i]]

\* remove_task(task_id) on file f
remove_task(f, task_id) ==
    LET l == load_tasks(f)
        i == FirstIndex(l.tasks, task_id)
    IN IF l.exc # NoExc
       THEN [exc |-> l.exc, file |-> f, task |-> NoTask]
       ELSE IF i = 0
       THEN [exc |-> Exc("TaskError", "task not found"), file |-> f, task |-> NoTask]
       ELSE [exc |-> NoExc, file |-> save_tasks(Pop(l.tasks, i)),
             task |-> l.tasks[i]]

(* ---------------------------- CLI helpers ------------------------------ *)

\* value of a string of decimal digits
RECURSIVE Num(_)
Num(s) == IF s = <<>> THEN 0 ELSE 10 * Num(SubSeq(s, 1, Len(s) - 1)) + (s[Len(s)] - 48)

IsLeap(y) == (y % 4 = 0 /\ y % 100 # 0) \/ y % 400 = 0

DaysIn(y, m) ==
    IF m = 2 THEN (IF IsLeap(y) THEN 29 ELSE 28)
    ELSE IF m \in {4, 6, 9, 11} THEN 30 ELSE 31

\* %m: 1[0-2] | 0[1-9] | [1-9]
MonthToken(s) ==
    \/ Len(s) = 2 /\ s[1] = 49 /\ s[2] \in 48..50
    \/ Len(s) = 2 /\ s[1] = 48 /\ s[2] \in 49..57
    \/ Len(s) = 1 /\ s[1] \in 49..57

\* %d: 3[0-1] | [1-2]\d | 0[1-9] | [1-9] | " [1-9]"
DayToken(s) ==
    \/ Len(s) = 2 /\ s[1] = 51 /\ s[2] \in 48..49
    \/ Len(s) = 2 /\ s[1] \in 49..50 /\ IsDigit(s[2])
    \/ Len(s) = 2 /\ s[1] = 48 /\ s[2] \in 49..57
    \/ Len(s) = 1 /\ s[1] \in 49..57
    \/ Len(s) = 2 /\ s[1] = 32 /\ s[2] \in 49..57

\* the digits of a day token (a leading blank is dropped by int())
DayDigits(s) == IF s[1] = 32 THEN Tail(s) ELSE s

\* datetime.strptime(value, "%Y-%m-%d") returns instead of raising ValueError
strptime_ok(value) ==
    \E mlen \in 1..2, dlen \in 1..2 :
       /\ Len(value) = 6 + mlen + dlen
       /\ \A i \in 1..4 : IsDigit(value[i])
       /\ value[5] = 45
       /\ value[6 + mlen] = 45
       /\ LET y == Num(SubSeq(value, 1, 4))
              ms == SubSeq(value, 6, 5 + mlen)
              ds == SubSeq(value, 7 + mlen, 6 + mlen + dlen)
          IN /\ MonthToken(ms)
             /\ DayToken(ds)
             /\ y >= 1
             /\ Num(DayDigits(ds)) <= DaysIn(y, Num(ms))

\* parse_date(value); ok = FALSE: it raises ArgumentTypeError
parse_date(value) ==
    IF lower(value) = T_today THEN [ok |-> TRUE, val |-> Today]
    ELSE IF strptime_ok(value) THEN [ok |-> TRUE, val |-> value]
    ELSE [ok |-> FALSE, val |-> <<>>]

\* the --date option: absent (the default, today's date) or a token
date_option(tok) ==
    IF ~tok.some THEN [ok |-> TRUE, val |-> Today] ELSE parse_date(tok.val)

\* argparse.Namespace of the four sub-commands, unused attributes at rest
Args(command, description, date, all, completed, pending, task_id, undone) ==
    [command |-> command, description |-> description, date |-> date,
     all |-> all, completed |-> completed, pending |-> pending,
     task_id |-> task_id, undone |-> undone]

NoArgs == Args("", "", None, FALSE, FALSE, FALSE, 0, FALSE)

(* What an invocation leaves behind.  status: "returned" (main returned    *)
(* code), "escaped" (an exception left main; the interpreter exits with 1),*)
(* "parser_exit" (argparse ended the process with code 2), and for a       *)
(* direct call of list_tasks "call_returned" or "call_raised".             *)
Out(status, code, stdout, stderr, task, listing) ==
    [status |-> status, code |-> code, stdout |-> stdout, stderr |-> stderr,
     task |-> task, listing |-> listing]

NoOut == Out("", 0, "", "", NoTask, <<>>)

\* parser.parse_args rejects argv: usage on stderr, SystemExit(2)
ParserExit(f) ==
    [file |-> f, args |-> NoArgs,
     out |-> Out("parser_exit", 2, "", "usage", NoTask, <<>>)]

\* the try/except of main around an operation that raised exc
Raised(exc) ==
    IF exc.class = "TaskError"
    THEN Out("returned", 1, "", exc.msg, NoTask, <<>>)
    ELSE Out("escaped", 1, "", "Traceback", NoTask, <<>>)

\* main that calls add_task before argparse has checked the --date value
main_add_checks_date_last(f, description, tok) ==
    LET d == date_option(tok)
        r == add_task(f, description, d.val)
    IN IF r.exc # NoExc
       THEN [file |-> r.file, args |-> NoArgs, out |-> Raised(r.exc)]
       ELSE IF ~d.ok THEN ParserExit(r.file)
       ELSE [file |-> r.file,
             args |-> Args("add", description, Some(d.val), FALSE, FALSE, FALSE, 0, FALSE),
             out |-> Out("returned", 0, "added", "", r.task, <<>>)]

\* main(["add", description, "--date", tok])
main_add(f, description, tok) ==
    LET d == date_option(tok)
        r == add_task(f, description, d.val)
    IN IF ~d.ok THEN ParserExit(f)
       ELSE [file |-> r.file,
             args |-> Args("add", description, Some(d.val), FALSE, FALSE, FALSE, 0, FALSE),
             out |-> IF r.exc # NoExc THEN Raised(r.exc)
                     ELSE Out("returned", 0, "added", "", r.task, <<>>)]

\* main whose list command writes back the tasks it loaded
main_list_saves_back(f, tok, all, completed, pending) ==
    LET d == date_option(tok)
        completed_state == IF completed THEN Some(TRUE)
                           ELSE IF pending THEN Some(FALSE) ELSE NoneBool
        r == list_tasks(f, Some(d.val), all, completed_state)
    IN IF ~d.ok \/ (completed /\ pending) THEN ParserExit(f)
       ELSE [file |-> IF r.exc # NoExc THEN f ELSE save_tasks(load_tasks(f).tasks),
             args |-> Args("list", "", Some(d.val), all, completed, pending, 0, FALSE),
             out |-> IF r.exc # NoExc THEN Raised(r.exc)
                     ELSE Out("returned", 0, "listed", "", NoTask, r.tasks)]

\* main(["list", "--date", tok, "--all", "--completed", "--pending"])
main_list(f, tok, all, completed, pending) ==
    LET d == date_option(tok)
        completed_state == IF completed THEN Some(TRUE)
                           ELSE IF pending THEN Some(FALSE) ELSE NoneBool
        r == list_tasks(f, Some(d.val), all, completed_state)
    IN IF ~d.ok \/ (completed /\ pending) THEN ParserExit(f)
       ELSE [file |-> f,
             args |-> Args("list", "", Some(d.val), all, completed, pending, 0, FALSE),
             out |-> IF r.exc # NoExc THEN Raised(r.exc)
                     ELSE Out("returned", 0, "listed", "", NoTask, r.tasks)]

\* main(["done", task_id, "--undone"])
main_done(f, task_id, undone) ==
    LET r == update_task_state(f, task_id, ~undone)
    IN [file |-> r.file,
        args |-> Args("done", "", None, FALSE, FALSE, FALSE, task_id, undone),
        out |-> IF r.exc # NoExc THEN Raised(r.exc)
                ELSE Out("returned", 0, "state", "", r.task, <<>>)]

\* main(["remove", task_id])
main_remove(f, task_id) ==
    LET r == remove_task(f, task_id)
    IN [file |-> r.file,
        args |-> Args("remove", "", None, FALSE, FALSE, FALSE, task_id, FALSE),
        out |-> IF r.exc # NoExc THEN Raised(r.exc)
                ELSE Out("returned", 0, "removed", "", r.task, <<>>)]

\* list_tasks(date, show_all, completed) called as a function
call_list_tasks(f, date, show_all, completed) ==
    LET r == list_tasks(f, date, show_all, completed)
    IN [file |-> f,
        args |-> Args("list_tasks", "", date, show_all,
                      completed = Some(TRUE), completed = Some(FALSE), 0, FALSE),
        out |-> IF r.exc # NoExc
                THEN Out("call_raised", 0, "", r.exc.class, NoTask, <<>>)
                ELSE Out("call_returned", 0, "", "", NoTask, r.tasks)]

(* ------------------------------ state ---------------------------------- *)

VARIABLES
    file,     \* tasks.json
    prev,     \* tasks.json as the last invocation found it
    args,     \* the last invocation's parsed arguments
    out,      \* what the last invocation left behind
    issued,   \* the ids successful adds have returned so far
    adds,     \* successful adds so far; 0 once a remove has succeeded
    removed,  \* some remove has succeeded
    pair,     \* progress of two invocations in a row on one id
    typed,    \* the --date value as the last invocation was given it
    write,    \* how save_tasks ended in the last invocation
    proc,     \* the invocation of each terminal session that shares the file
    runs,     \* how many invocations the sessions have started
    last_writer  \* the session whose save the file holds, "" before any

\* the variables a single session's invocations use
solo == <<prev, args, out, issued, adds, removed, pair, typed, write>>

\* the variables of sessions running side by side
shared == <<proc, runs, last_writer>>

vars == <<file, prev, args, out, issued, adds, removed, pair, typed, write,
          proc, runs, last_writer>>

NoPair == [first |-> "", stage |-> 0, id |-> 0, base |-> MissingFile]

\* main returned 0
Succeeded(o) == o.status = "returned" /\ o.code = 0

\* a list of every date and both states came back (list --all, or the call)
ListedAll(r) ==
    /\ r.args.command \in {"list", "list_tasks"}
    /\ r.out.status \in {"returned", "call_returned"} /\ r.out.code = 0
    /\ r.args.all /\ ~r.args.completed /\ ~r.args.pending

(* Two invocations in a row on one id.  stage 1: `done id` or `remove id`  *)
(* has just succeeded on the file base; stage 2: the very next invocation  *)
(* was `done id --undone` (after done) or a list of everything (after      *)
(* remove).  Any other invocation ends the pair.                           *)
NextPair(r) ==
    IF r.args.command = "done" /\ Succeeded(r.out) /\ ~r.args.undone
    THEN [first |-> "done", stage |-> 1, id |-> r.args.task_id, base |-> file]
    ELSE IF r.args.command = "remove" /\ Succeeded(r.out)
    THEN [first |-> "remove", stage |-> 1, id |-> r.args.task_id, base |-> file]
    ELSE IF /\ pair.first = "done" /\ pair.stage = 1
            /\ r.args.command = "done" /\ Succeeded(r.out) /\ r.args.undone
            /\ pair.id = r.args.task_id
    THEN [pair EXCEPT !.stage = 2]
    ELSE IF pair.first = "remove" /\ pair.stage = 1 /\ ListedAll(r)
    THEN [pair EXCEPT !.stage = 2]
    ELSE NoPair

\* add_task, update_task_state or remove_task got as far as save_tasks
Saves(r) == r.args.command \in {"add", "done", "remove"} /\ Succeeded(r.out)

(* One invocation r = [file, args, out] has run to its end.  tok is the    *)
(* --date value on its command line; how tells the way save_tasks ended:   *)
(* "none" (not called), "ok", "open_failed" (open() raised, the file is as *)
(* it was), "write_failed" (the file was truncated and the write broke     *)
(* off).                                                                   *)
Ended(r, tok, how) ==
    /\ file' = r.file
    /\ prev' = file
    /\ args' = r.args
    /\ out' = r.out
    /\ issued' = IF r.args.command = "add" /\ Succeeded(r.out)
                 THEN issued \cup {r.out.task.task_id} ELSE issued
    /\ removed' = (removed \/ (r.args.command = "remove" /\ Succeeded(r.out)))
    /\ adds' = IF removed' THEN 0
               ELSE IF r.args.command = "add" /\ Succeeded(r.out) THEN adds + 1
               ELSE adds
    /\ pair' = NextPair(r)
    /\ typed' = tok
    /\ write' = how
    /\ UNCHANGED shared

\* an invocation with a --date option, on a disk that works
StepDated(r, tok) == Ended(r, tok, IF Saves(r) THEN "ok" ELSE "none")

\* an invocation without a --date option, on a disk that works
Step(r) == StepDated(r, None)

\* the file is an array of objects Task.from_dict accepts
Loadable(f) == load_tasks(f).exc = NoExc

\* the tasks of a loadable file
Stored(f) == load_tasks(f).tasks

\* add is attempted while the file has room and ids remain
AddInBounds ==
    Loadable(file) =>
        /\ Len(Stored(file)) < MaxTasks
        /\ next_task_id(Stored(file)) <= MaxId

\* ids given on the command line: those in use, and one never handed out
IdArgs == (1..MaxId) \cup {99}

\* Optional[str] of --date: the option left out, or its value
Opt(d) == [some |-> d # <<>>, val |-> d]

\* argv of the add command: the description and the --date value
ArgvAdd(description, date) == [description |-> description, date |-> Opt(date)]

AddArgv ==
    {ArgvAdd("Buy milk", <<>>), ArgvAdd("Buy milk", T_Today),
     ArgvAdd("Write report", D_0501), ArgvAdd("Write report", D_0430),
     ArgvAdd("Write report", T_0230)}

\* argv of the list command: --date value, --all, --completed, --pending
ArgvList(date, all, completed, pending) ==
    [date |-> Opt(date), all |-> all, completed |-> completed, pending |-> pending]

ListArgv ==
    {ArgvList(<<>>, FALSE, FALSE, FALSE), ArgvList(D_0430, FALSE, FALSE, FALSE),
     ArgvList(T_today, FALSE, FALSE, TRUE), ArgvList(D_0430, FALSE, TRUE, FALSE),
     ArgvList(<<>>, TRUE, FALSE, FALSE), ArgvList(<<>>, TRUE, FALSE, TRUE),
     ArgvList(D_0430, TRUE, TRUE, FALSE), ArgvList(<<>>, FALSE, TRUE, TRUE),
     ArgvList(T_0230, FALSE, FALSE, FALSE)}

OptDates == {None} \cup {Some(d) : d \in Dates}

OptBools == {NoneBool, Some(TRUE), Some(FALSE)}

(* ------------- invocations of two sessions, side by side --------------- *)

\* two terminal sessions in the directory of tasks.json
Procs == {"s1", "s2"}

(* One invocation.  pc: "idle" (none yet), "loaded" (load_tasks has        *)
(* returned, save_tasks has not run), "exited".  seen is tasks.json as     *)
(* load_tasks read it; stale says that the file was no longer that when    *)
(* the invocation saved.                                                   *)
Session(pc, a, seen, status, code, task, stale) ==
    [pc |-> pc, command |-> a.command, description |-> a.description,
     date |-> a.date, task_id |-> a.task_id, completed |-> a.completed,
     seen |-> seen, status |-> status, code |-> code, task |-> task,
     stale |-> stale]

\* parsed arguments of the commands that write
Argv(command, description, date, task_id, completed) ==
    [command |-> command, description |-> description, date |-> date,
     task_id |-> task_id, completed |-> completed]

Idle == Session("idle", Argv("", "", <<>>, 0, FALSE), MissingFile, "", 0, NoTask, FALSE)

RaceArgv ==
    {Argv("add", "Buy milk", date_option(Opt(<<>>)).val, 0, FALSE),
     Argv("add", "Write report", date_option(Opt(D_0430)).val, 0, FALSE)}
    \cup {Argv("done", "", <<>>, id, ~undone) : id \in 1..MaxId, undone \in BOOLEAN}
    \cup {Argv("remove", "", <<>>, id, FALSE) : id \in 1..MaxId}

\* an operation that would read the file again right before it saves
working_copy_reloaded(seen, current) == current

\* the tasks an operation changes and saves are those it loaded at its start
working_copy(seen, current) == seen

\* add_task, update_task_state or remove_task run on the content f
operate(s, f) ==
    IF s.command = "add" THEN add_task(f, s.description, s.date)
    ELSE IF s.command = "done" THEN update_task_state(f, s.task_id, s.completed)
    ELSE remove_task(f, s.task_id)

\* session p starts an invocation: main parses argv, the operation loads
Load(p) ==
    /\ proc[p].pc \in {"idle", "exited"}
    /\ runs < MaxRuns
    /\ \E a \in RaceArgv :
          /\ a.command = "add" => AddInBounds
          /\ LET l == load_tasks(file)
             IN proc' = [proc EXCEPT ![p] =
                    IF l.exc # NoExc
                    THEN Session("exited", a, file, Raised(l.exc).status,
                                 Raised(l.exc).code, NoTask, FALSE)
                    ELSE Session("loaded", a, file, "", 0, NoTask, FALSE)]
    /\ runs' = runs + 1
    /\ UNCHANGED <<file, last_writer>>
    /\ UNCHANGED solo

\* session p's operation changes its tasks, saves them (or raises), main exits
Finish(p) ==
    /\ proc[p].pc = "loaded"
    /\ LET s == proc[p]
           r == operate(s, working_copy(s.seen, file))
           saved == r.exc = NoExc
       IN /\ file' = IF saved THEN r.file ELSE file
          /\ last_writer' = IF saved THEN p ELSE last_writer
          /\ proc' = [proc EXCEPT ![p] =
                 Session("exited", s, s.seen,
                         IF saved THEN "returned" ELSE Raised(r.exc).status,
                         IF saved THEN 0 ELSE Raised(r.exc).code,
                         r.task, saved /\ file # s.seen)]
    /\ UNCHANGED runs
    /\ UNCHANGED solo

NextRace == (\E p \in Procs : Load(p)) \/ (\E p \in Procs : Finish(p))

Add ==
    /\ AddInBounds
    /\ \E a \in AddArgv : StepDated(main_add(file, a.description, a.date), a.date)

List ==
    \E a \in ListArgv :
           StepDated(main_list(file, a.date, a.all, a.completed, a.pending), a.date)

Done ==
    \E task_id \in IdArgs, undone \in BOOLEAN :
           Step(main_done(file, task_id, undone))

Remove ==
    \E task_id \in IdArgs : Step(main_remove(file, task_id))

ListCall ==
    \E date \in OptDates, show_all \in BOOLEAN, completed \in OptBools :
           Step(call_list_tasks(file, date, show_all, completed))

Init ==
    /\ file \in {MissingFile, ListFile(<<>>)}
    /\ prev = file
    /\ args = NoArgs
    /\ out = NoOut
    /\ issued = {}
    /\ adds = 0
    /\ removed = FALSE
    /\ pair = NoPair
    /\ typed = None
    /\ write = "none"
    /\ proc = [p \in Procs |-> Idle]
    /\ runs = 0
    /\ last_writer = ""

Next == Add \/ List \/ Done \/ Remove \/ ListCall

Spec == Init /\ [][Next]_vars

\* two sessions whose load and save steps interleave, saves being atomic
SpecRace == Init /\ [][NextRace]_vars

(* ------------------------ the stored ids ------------------------------- *)

\* the ids of the tasks of a loadable file
Ids(f) == {Stored(f)[i].task_id : i \in 1..Len(Stored(f))}

\* the last invocation was an add that returned a task
Added == args.command = "add" /\ Succeeded(out)

(* C1: from a missing or empty file, as long as no remove has succeeded,   *)
(* the k-th successful add returns id k, whatever done and list            *)
(* invocations come in between.                                            *)
AddsCountFromOne == (Added /\ ~removed) => out.task.task_id = adds

\* C1 witness: the second add returned 2 after a done in between
SecondAddAfterDone ==
    /\ Added /\ ~removed /\ adds = 2 /\ out.task.task_id = 2
    /\ Stored(file)[1].completed

(* C2 as stated: an add never returns an id that an earlier add returned.  *)
NeverReissued ==
    [][(args'.command = "add" /\ Succeeded(out')) => out'.task.task_id \notin issued]_vars

(* C2 amended: an add returns an id greater than every id stored at that   *)
(* moment, so the id of a removed task comes back only when no task with   *)
(* an equal or greater id is left in the file.                             *)
IssuedAboveStored ==
    Added => (Loadable(prev) /\ \A i \in Ids(prev) : i < out.task.task_id)

\* C2 witness: after a remove, add hands out id 1 again
IdOneReissued == Added /\ removed /\ out.task.task_id = 1

(* C3: from a missing or empty file, every file the operations leave has   *)
(* pairwise different ids, each a positive integer.                        *)
UniquePositiveIds ==
    /\ Loadable(file)
    /\ \A i, j \in 1..Len(Stored(file)) :
           i # j => Stored(file)[i].task_id # Stored(file)[j].task_id
    /\ \A i \in 1..Len(Stored(file)) : Stored(file)[i].task_id >= 1

\* C3 witness: two tasks are stored after a remove and a later add
TwoStoredAfterRemove == removed /\ Added /\ Len(Stored(file)) = 2

(* --------------- a file this run did not write ------------------------- *)

\* the keys a hand-edited object may have
KeySets ==
    {AllKeys, RequiredKeys, AllKeys \ {"task_id"}, AllKeys \ {"description"},
     AllKeys \ {"scheduled_for"}}

\* a JSON object with the given keys whose task_id is id (or not a number)
RawObject(id, keys, id_ok) ==
    [keys |-> keys, id_ok |-> id_ok, task_id |-> id, description |-> "Buy milk",
     scheduled_for |-> D_0501, completed |-> (id % 2 = 0)]

\* arrays of up to MaxStored objects, the i-th carrying id i
StoredArrays ==
    UNION {[1..n -> KeySets \X BOOLEAN] : n \in 0..MaxStored}

ArrayFile(a) ==
    ListFile([i \in 1..Len(a) |-> RawObject(i, a[i][1], a[i][2])])

StoredFiles ==
    {MissingFile, CorruptFile, ScalarFile} \cup {ArrayFile(a) : a \in StoredArrays}

InitStored ==
    /\ file \in StoredFiles
    /\ prev = file
    /\ args = NoArgs
    /\ out = NoOut
    /\ issued = {}
    /\ adds = 0
    /\ removed = FALSE
    /\ pair = NoPair
    /\ typed = None
    /\ write = "none"
    /\ proc = [p \in Procs |-> Idle]
    /\ runs = 0
    /\ last_writer = ""

\* the invocations of Spec, on whatever file is found
SpecStored == InitStored /\ [][Next]_vars

Commands == {"add", "list", "done", "remove"}

\* the last invocation's operation failed for one of the three reasons
UnknownId ==
    /\ args.command \in {"done", "remove"}
    /\ Loadable(prev)
    /\ args.task_id \notin Ids(prev)

NotStructured == args.command \in Commands /\ prev.kind = "corrupt"

MalformedRecord ==
    args.command \in Commands /\ prev.kind = "list" /\ ~Loadable(prev)

(* C4 as stated: whenever add, list, done or remove fails because the id   *)
(* is unknown, the file is not valid structured data or a stored record is *)
(* malformed, main catches the failure, prints its message on stderr and   *)
(* returns 1.                                                              *)
FailuresReported ==
    (UnknownId \/ NotStructured \/ MalformedRecord) =>
        (out.status = "returned" /\ out.code = 1 /\ out.stderr # "")

(* ------------------- failures, removal, completion --------------------- *)

(* C5: remove or done with an id no stored task has ends with the          *)
(* not-found error and code 1 and leaves the file as it was; a missing     *)
(* file stays missing.                                                     *)
NotFoundLeavesFile ==
    UnknownId =>
        /\ out.status = "returned" /\ out.code = 1
        /\ out.stderr = "task not found"
        /\ file = prev

\* C5 witness: remove 99 with no file at all
Remove99OnMissingFile ==
    /\ args.command = "remove" /\ args.task_id = 99
    /\ prev = MissingFile /\ file = MissingFile
    /\ out.code = 1

(* C6: once remove id has succeeded the file holds no task with that id,   *)
(* and a list of everything that follows shows no task with that id.       *)
RemovedStaysGone ==
    pair.first = "remove" =>
        /\ pair.stage >= 1 => pair.id \notin Ids(file)
        /\ pair.stage = 2 =>
               \A k \in 1..Len(out.listing) : out.listing[k].task_id # pair.id

\* C6 witness: the list after a remove still shows another task
ListedAfterRemove ==
    pair.first = "remove" /\ pair.stage = 2 /\ Len(out.listing) >= 1

(* C7: done id followed by done id --undone leaves the task not completed  *)
(* with its other fields as before, whatever its state was, and every      *)
(* other task and the order of the file unchanged.                         *)
DoneUndoneRoundTrip ==
    (pair.first = "done" /\ pair.stage = 2) =>
        LET before == Stored(pair.base)
            after == Stored(file)
        IN /\ Len(after) = Len(before)
           /\ \A k \in 1..Len(before) :
                  IF before[k].task_id = pair.id
                  THEN /\ ~after[k].completed
                       /\ after[k].task_id = before[k].task_id
                       /\ after[k].description = before[k].description
                       /\ after[k].scheduled_for = before[k].scheduled_for
                  ELSE after[k] = before[k]

\* C7 witness: the pair ran on a task that was completed, next to another
RoundTripOnCompleted ==
    /\ pair.first = "done" /\ pair.stage = 2
    /\ Len(Stored(pair.base)) = 2
    /\ \E k \in 1..2 : /\ Stored(pair.base)[k].task_id = pair.id
                       /\ Stored(pair.base)[k].completed

(* ------------------------------ list ----------------------------------- *)

\* the last invocation was a list that came back with its tasks
Listed ==
    /\ args.command \in {"list", "list_tasks"}
    /\ out.status \in {"returned", "call_returned"}
    /\ out.code = 0

(* C8: what list returns is sorted ascending by (scheduled_for, id): of    *)
(* two neighbours the first has the smaller date, or the same date and the *)
(* smaller id.                                                             *)
ListingSorted ==
    Listed =>
        \A k \in 1..(Len(out.listing) - 1) :
            LET a == out.listing[k]
                b == out.listing[k + 1]
            IN \/ StrLess(a.scheduled_for, b.scheduled_for)
               \/ a.scheduled_for = b.scheduled_for /\ a.task_id < b.task_id

\* C8 witness: the listing puts a later-added task first
ListedOutOfFileOrder ==
    /\ Listed /\ Len(out.listing) = 2
    /\ out.listing[1].task_id > out.listing[2].task_id

\* the task passes the filters the last list was given
Wanted(t) ==
    /\ args.all \/ ~args.date.some \/ t.scheduled_for = args.date.val
    /\ args.completed => t.completed
    /\ args.pending => ~t.completed

(* C9: list returns exactly the stored tasks that pass the date filter     *)
(* (skipped when show_all is set or no date is given) and the completion   *)
(* filter (skipped only when none is given), each of them once.            *)
ListingExact ==
    Listed =>
        /\ \A i \in 1..Len(Stored(prev)) :
               Wanted(Stored(prev)[i]) <=>
                   \E k \in 1..Len(out.listing) : out.listing[k] = Stored(prev)[i]
        /\ \A k \in 1..Len(out.listing) :
               \E i \in 1..Len(Stored(prev)) : out.listing[k] = Stored(prev)[i]
        /\ \A k, m \in 1..Len(out.listing) :
               k # m => out.listing[k] # out.listing[m]

\* C9 witness: --all with --completed shows another date, hides a pending task
AllKeepsStateFilter ==
    /\ Listed /\ args.all /\ args.completed /\ args.date.some
    /\ Len(Stored(prev)) = 2 /\ Len(out.listing) = 1
    /\ out.listing[1].scheduled_for # args.date.val

(* ------------------------ sessions side by side ------------------------ *)

\* session q's last invocation returned 0 and its save is what the file holds
WroteLast(q) ==
    /\ last_writer = q
    /\ proc[q].pc = "exited" /\ proc[q].status = "returned" /\ proc[q].code = 0

\* session p's last invocation was an add that returned 0
AddedIn(p) ==
    /\ proc[p].pc = "exited" /\ proc[p].command = "add"
    /\ proc[p].status = "returned" /\ proc[p].code = 0

(* C10: load and save are separate steps with no lock.  The file holds     *)
(* what the last writer made of the content it had loaded, so a save made  *)
(* between its load and its save is lost: when two adds that loaded the    *)
(* same content both report success, the file has one new task only.       *)
LastWriterWins ==
    \A q \in Procs :
        WroteLast(q) =>
            /\ file = operate(proc[q], proc[q].seen).file
            /\ \A p \in Procs \ {q} :
                   (AddedIn(p) /\ AddedIn(q) /\ proc[q].stale
                        /\ proc[p].seen = proc[q].seen)
                   => Len(Stored(file)) = Len(Stored(proc[q].seen)) + 1

\* C10 witness: two adds report success, the file has the later one alone
OneAddLost ==
    \E p, q \in Procs :
        /\ p # q /\ AddedIn(p) /\ AddedIn(q) /\ WroteLast(q)
        /\ proc[q].stale /\ proc[p].seen = proc[q].seen
        /\ proc[p].description # proc[q].description
        /\ Stored(file) = <<proc[q].task>>

(* ------------------------ storage round trip --------------------------- *)

\* the last invocation was add, done or remove and it returned 0
Wrote == args.command \in {"add", "done", "remove"} /\ Succeeded(out)

\* the tasks the last invocation had in memory when it called save_tasks
Handed ==
    LET before == Stored(prev)
    IN IF args.command = "add" THEN Append(before, out.task)
       ELSE IF args.command = "done"
       THEN [before EXCEPT ![FirstIndex(before, args.task_id)] = out.task]
       ELSE Pop(before, FirstIndex(before, args.task_id))

Greatest(ids) ==
    IF ids = {} THEN 0 ELSE CHOOSE m \in ids : \A i \in ids : i <= m

(* C12: add returns the greatest stored id plus one, 1 for no stored task, *)
(* so an id greater than every stored one.  An id handed out before comes  *)
(* back only when no stored task has it or a greater one; the id of a      *)
(* removed task below the greatest stored id does not come back.           *)
AddReturnsGreatestPlusOne ==
    Added =>
        /\ Loadable(prev)
        /\ out.task.task_id = Greatest(Ids(prev)) + 1
        /\ Ids(prev) = {} => out.task.task_id = 1
        /\ \A i \in issued :
               (i \notin Ids(prev) /\ i < Greatest(Ids(prev))) => out.task.task_id # i

\* C12 witness: 1 was removed while 2 stayed, and add returned 3, not 1
RemovedLowIdNotReissued ==
    /\ Added /\ removed /\ out.task.task_id = 3
    /\ Ids(prev) = {2} /\ issued = {1, 2, 3}

(* --------------------- what each operation changes --------------------- *)

(* C13: a successful add leaves the stored tasks as they were, in their    *)
(* places, with one task more at the end: the returned one, which has the  *)
(* given description and date and is not completed.                        *)
AddAppendsOne ==
    Added =>
        LET before == Stored(prev)
            after == Stored(file)
        IN /\ Loadable(file)
           /\ Len(after) = Len(before) + 1
           /\ \A k \in 1..Len(before) : after[k] = before[k]
           /\ after[Len(after)] = out.task
           /\ out.task.description = args.description
           /\ out.task.scheduled_for = args.date.val
           /\ ~out.task.completed

\* C13 witness: a task is appended behind a completed one of another date
AddedBehindCompleted ==
    /\ Added /\ Len(Stored(prev)) = 1 /\ Len(Stored(file)) = 2
    /\ Stored(file)[1].completed
    /\ Stored(file)[1].scheduled_for # Stored(file)[2].scheduled_for

\* the last invocation was that command and it returned 0
Ran(command) == args.command = command /\ Succeeded(out)

(* C14: a successful remove takes out one task, the first with the given   *)
(* id, and returns it: the file is one task shorter, the tasks in front of *)
(* it and behind it keep their fields and their order.                     *)
RemoveTakesOne ==
    Ran("remove") =>
        LET before == Stored(prev)
            after == Stored(file)
        IN /\ Loadable(file)
           /\ Len(after) = Len(before) - 1
           /\ \E i \in 1..Len(before) :
                  /\ before[i].task_id = args.task_id
                  /\ \A k \in 1..(i - 1) : before[k].task_id # args.task_id
                  /\ out.task = before[i]
                  /\ \A k \in 1..(i - 1) : after[k] = before[k]
                  /\ \A k \in i..Len(after) : after[k] = before[k + 1]

\* C14 witness: the first of two tasks is removed, the second stays
FirstOfTwoRemoved ==
    /\ Ran("remove") /\ Len(Stored(prev)) = 2
    /\ Stored(prev)[1].task_id = args.task_id
    /\ Stored(file) = <<Stored(prev)[2]>>

(* C15: a successful done (or done --undone) sets the completed flag of    *)
(* the first task with the given id and nothing else: same length, same    *)
(* order, the target keeps id, description and date, every other task is   *)
(* as before, and the returned task is the target with the new flag.       *)
DoneSetsOneFlag ==
    Ran("done") =>
        LET before == Stored(prev)
            after == Stored(file)
        IN /\ Loadable(file)
           /\ Len(after) = Len(before)
           /\ \E i \in 1..Len(before) :
                  /\ before[i].task_id = args.task_id
                  /\ \A k \in 1..(i - 1) : before[k].task_id # args.task_id
                  /\ after[i].completed = ~args.undone
                  /\ after[i].task_id = before[i].task_id
                  /\ after[i].description = before[i].description
                  /\ after[i].scheduled_for = before[i].scheduled_for
                  /\ out.task = after[i]
                  /\ \A k \in 1..Len(before) : k # i => after[k] = before[k]

\* C15 witness: --undone on the second task, the completed first one stays so
SecondTaskUndone ==
    /\ Ran("done") /\ args.undone /\ Len(Stored(prev)) = 2
    /\ Stored(prev)[2].task_id = args.task_id /\ Stored(prev)[2].completed
    /\ Stored(file)[1].completed /\ ~Stored(file)[2].completed

(* -------------------------- a disk that fails -------------------------- *)

\* the ways DATA_FILE.write_text can raise OSError
WriteFailures == {"open_failed", "write_failed"}

\* tasks.json after write_text raised: untouched, or truncated and cut short
Damaged(f, how) == IF how = "open_failed" THEN f ELSE CorruptFile

\* an invocation whose except clause would also take the OSError and go on
main_write_fails_unnoticed(f, m, how) ==
    [file |-> Damaged(f, how), args |-> m.args, out |-> m.out]

(* main(argv), which on a working disk ends as m, when write_text raises   *)
(* inside save_tasks: OSError propagates out of the operation into main.   *)
main_write_fails(f, m, how) ==
    [file |-> Damaged(f, how), args |-> m.args,
     out |-> Raised(Exc("OSError", "write_text failed"))]

AddFails ==
    /\ AddInBounds
    /\ \E a \in AddArgv, how \in WriteFailures :
          LET m == main_add(file, a.description, a.date)
          IN Saves(m) /\ Ended(main_write_fails(file, m, how), a.date, how)

DoneFails ==
    \E task_id \in IdArgs, undone \in BOOLEAN, how \in WriteFailures :
        LET m == main_done(file, task_id, undone)
        IN Saves(m) /\ Ended(main_write_fails(file, m, how), None, how)

RemoveFails ==
    \E task_id \in IdArgs, how \in WriteFailures :
        LET m == main_remove(file, task_id)
        IN Saves(m) /\ Ended(main_write_fails(file, m, how), None, how)

NextDisk == Add \/ List \/ Done \/ Remove \/ AddFails \/ DoneFails \/ RemoveFails

\* the invocations of one session on a disk whose writes may fail
SpecDisk == Init /\ [][NextDisk]_vars

FailedWriteNotSuccess ==
    write \in WriteFailures =>
        /\ out.stdout = ""
        /\ ~(out.status = "returned" /\ out.code = 0)
        /\ out.code # 0

\* C17 witness: remove got as far as save_tasks, which truncated the file
RemoveLeftFileTruncated ==
    /\ write = "write_failed" /\ args.command = "remove"
    /\ Loadable(prev) /\ args.task_id \in Ids(prev)
    /\ file = CorruptFile /\ out.status = "escaped"

(* ------------------------- ids under races ----------------------------- *)

(* C18: with add, done and remove invocations of two sessions whose loads  *)
(* and (atomic) saves interleave in any order, starting from a missing or  *)
(* empty file, every content of tasks.json has pairwise distinct ids.      *)
RaceKeepsIdsDistinct ==
    /\ Loadable(file)
    /\ Cardinality(Ids(file)) = Len(Stored(file))

\* C18 witness: a save over a file changed since its load left two tasks
TwoTasksAfterStaleSave ==
    \E p \in Procs :
        /\ WroteLast(p) /\ proc[p].stale
        /\ Len(Stored(file)) = 2

(* C19: the id an add returns is the greatest id of the content it loaded  *)
(* plus one, whatever was saved since; so two adds that load the same      *)
(* content both succeed and return the same id, for different tasks.       *)
AddIdFromLoadedContent ==
    \A p \in Procs :
        AddedIn(p) =>
            /\ proc[p].task.task_id = Greatest(Ids(proc[p].seen)) + 1
            /\ \A q \in Procs \ {p} :
                   (AddedIn(q) /\ proc[q].seen = proc[p].seen)
                   => proc[q].task.task_id = proc[p].task.task_id

\* C19 witness: both sessions were told the same id for different descriptions
SameIdForTwoTasks ==
    \E p, q \in Procs :
        /\ p # q /\ AddedIn(p) /\ AddedIn(q)
        /\ proc[q].stale /\ proc[p].seen = proc[q].seen
        /\ proc[p].task.task_id = proc[q].task.task_id
        /\ proc[p].task.description # proc[q].task.description

(* ----------------------------- list reads ------------------------------ *)

(* C20: list, with any date, show_all and completion filter and whatever   *)
(* is stored, calls no save_tasks: tasks.json is afterwards what it was    *)
(* before, and a missing file is still missing.                            *)
ListLeavesFile ==
    args.command \in {"list", "list_tasks"} =>
        /\ file = prev
        /\ write = "none"
        /\ prev.kind = "missing" => file.kind = "missing"

\* C20 witness: --all on a missing file lists nothing and creates no file
ListedMissingFile ==
    /\ args.command = "list" /\ args.all /\ Succeeded(out)
    /\ out.listing = <<>>
    /\ prev = MissingFile /\ file = MissingFile

====
